---- MODULE Spec2Model ----
(***************************************************************************)
(* Bebop, a terminal Gemini browser: the page pad (scroll buffer) of       *)
(* bebop/page.py, the Gemtext parser of bebop/gemtext.py, the metalines    *)
(* generation of bebop/metalines.py, the navigation of bebop/browser.py    *)
(* and the external commands of bebop/external.py.                         *)
(***************************************************************************)
EXTENDS Integers, Sequences, FiniteSets, TLC

VARIABLES
    dim,             \* PagePad.dim: <<rows, columns>> of the content pad
    current_line,    \* PagePad.current_line
    current_column,  \* PagePad.current_column
    current_page,    \* PagePad.current_page
    last,            \* the last PagePad call: arguments, result, offsets before
    text,            \* parse_gemtext: the lines of the input text
    pos,             \* parse_gemtext: index of the next line of the for loop
    elements,        \* parse_gemtext: the elements list
    preformatted,    \* parse_gemtext: None (<<>>) or the open block (<<block>>)
    ww_text,         \* wrap_words: the text argument
    ww_width,        \* wrap_words: the width argument
    ww_indent,       \* wrap_words: the indent argument
    ww_words,        \* wrap_words: words, the exploded text
    ww_i,            \* wrap_words: index of the next word of the for loop
    ww_line,         \* wrap_words: line, the line being filled
    ww_lines,        \* wrap_words: lines, the lines pushed so far
    ww_pc,           \* wrap_words: "loop", "returned", or "diverged" when the
                     \* while loop runs forever
    ww_last,         \* wrap_words: what the last iteration of the for loop did
    gm_elements,     \* generate_metalines: the elements argument
    gm_options,      \* generate_metalines: the options argument
    gm_index,        \* generate_metalines: index of the next element (from 1)
    gm_metalines,    \* generate_metalines: metalines
    gm_has_margins,  \* generate_metalines: has_margins
    gm_thin_type,    \* generate_metalines: thin_type (0 for None)
    gm_last,         \* generate_metalines: what the last iteration did
    br_current_url,  \* Browser.current_url ("" when no page was opened)
    br_history,      \* Browser.history: the urls pushed, the last one last
    br_page,         \* Browser.page: the url and the links of the page shown
    br_status,       \* Browser.status_data: [error, text] of the status line
    br_call,         \* the open_gemini_url call to run next: <<>> or <<call>>
    br_op,           \* the user operation being served: its name, the fields
                     \* of the browser when it began, the requests issued
    ext_command,     \* open_external_program: the command argument
    ext_pc,          \* open_external_program: the statement to run next
    ext_terminal,    \* the curses state: [cbreak, echo, cursor, mouse]
    ext_calls,       \* open_external_program: the calls made so far
    ext_result       \* open_external_program: result (<<>> before line 20)

pad_vars == <<dim, current_line, current_column, current_page, last>>
parse_vars == <<text, pos, elements, preformatted>>
wrap_vars == <<ww_text, ww_width, ww_indent, ww_words, ww_i, ww_line,
               ww_lines, ww_pc, ww_last>>
layout_vars == <<gm_elements, gm_options, gm_index, gm_metalines,
                 gm_has_margins, gm_thin_type, gm_last>>
browser_vars == <<br_current_url, br_history, br_page, br_status, br_call,
                  br_op>>
external_vars == <<ext_command, ext_pc, ext_terminal, ext_calls, ext_result>>
vars == <<dim, current_line, current_column, current_page, last,
          text, pos, elements, preformatted,
          ww_text, ww_width, ww_indent, ww_words, ww_i, ww_line,
          ww_lines, ww_pc, ww_last,
          gm_elements, gm_options, gm_index, gm_metalines,
          gm_has_margins, gm_thin_type, gm_last,
          br_current_url, br_history, br_page, br_status, br_call, br_op,
          ext_command, ext_pc, ext_terminal, ext_calls, ext_result>>

Max(a, b) == IF a >= b THEN a ELSE b
Min(a, b) == IF a <= b THEN a ELSE b

(***************************************************************************)
(* Bounds of the model.                                                    *)
(***************************************************************************)
MaxRows == 3
MaxHeight == 4
BigDelta == 1000
ColStep == 500
TermWidth == 80
WideWidth == 200

(***************************************************************************)
(* bebop/page.py: PagePad                                                  *)
(***************************************************************************)
MAX_COLS == 1000

\* Number of metalines of the pages that get loaded.
RowCounts == 0..MaxRows
\* A Page, reduced to what the pad uses of it: the number of its metalines.
Pages == [rows : RowCounts]
\* current_page before the first show_page (None).
NoPage == [rows |-> -1]

\* Window sizes handed to the scroll calls by the browser (self.h - 2, self.w).
Heights == (-1)..MaxHeight
Widths == {0, TermWidth, WideWidth, MAX_COLS + 1}
\* Scroll amounts: 1 is a key binding, 0 a whole page of a 3-line terminal,
\* BigDelta an oversized amount.
VDeltas == {-BigDelta, -1, 0, 1, BigDelta}
HDeltas == {-BigDelta, -ColStep, 0, ColStep, BigDelta}

\* render_lines(metalines, pad, MAX_COLS): the new dimensions of the pad.
render_lines(page) == <<page.rows, MAX_COLS>>

\* PagePad.show_page: the pad's fields after the call.
show_page_keeps_offsets(page, line, column) ==
    [current_page |-> page, dim |-> render_lines(page),
     current_line |-> line, current_column |-> column]

show_page(page, line, column) ==
    [current_page |-> page, dim |-> render_lines(page),
     current_line |-> 0, current_column |-> 0]

\* PagePad.scroll_v: the new current_line and the returned value.
scroll_v_no_clamp(line, rows, num_lines, window_height) ==
    IF num_lines < 0
    THEN IF line > 0
         THEN [line |-> line + num_lines, ret |-> TRUE]
         ELSE [line |-> line, ret |-> FALSE]
    ELSE LET max_line == rows - window_height IN
         IF line < max_line
         THEN [line |-> line + num_lines, ret |-> TRUE]
         ELSE [line |-> line, ret |-> FALSE]

scroll_v_inclusive(line, rows, num_lines, window_height) ==
    IF num_lines < 0
    THEN LET n == -num_lines
             min_line == 0 IN
         IF line >= min_line
         THEN [line |-> Max(line - n, min_line), ret |-> TRUE]
         ELSE [line |-> line, ret |-> FALSE]
    ELSE LET max_line == rows - window_height IN
         IF line <= max_line
         THEN [line |-> Min(line + num_lines, max_line), ret |-> TRUE]
         ELSE [line |-> line, ret |-> FALSE]

scroll_v(line, rows, num_lines, window_height) ==
    IF num_lines < 0
    THEN LET n == -num_lines
             min_line == 0 IN
         IF line > min_line
         THEN [line |-> Max(line - n, min_line), ret |-> TRUE]
         ELSE [line |-> line, ret |-> FALSE]
    ELSE LET max_line == rows - window_height IN
         IF line < max_line
         THEN [line |-> Min(line + num_lines, max_line), ret |-> TRUE]
         ELSE [line |-> line, ret |-> FALSE]

\* PagePad.scroll_h: the new current_column and the returned value.
scroll_h(column, columns, num_columns, window_width) ==
    IF num_columns < 0
    THEN LET n == -num_columns
             min_column == 0 IN
         IF column > min_column
         THEN [column |-> Max(column - n, min_column), ret |-> TRUE]
         ELSE [column |-> column, ret |-> FALSE]
    ELSE LET max_column == columns - window_width IN
         IF column < max_column
         THEN [column |-> Min(column + num_columns, max_column), ret |-> TRUE]
         ELSE [column |-> column, ret |-> FALSE]

\* PagePad.go_to_beginning
go_to_beginning(line) ==
    IF line # 0
    THEN [line |-> 0, ret |-> TRUE]
    ELSE [line |-> line, ret |-> FALSE]

\* PagePad.go_to_end
go_to_end(line, rows, window_height) ==
    LET max_line == rows - window_height IN
    IF line # max_line
    THEN [line |-> max_line, ret |-> TRUE]
    ELSE [line |-> line, ret |-> FALSE]

\* PagePad.go_to_first_column, called by Browser.scroll_page_horizontally.
go_to_first_column(column) ==
    IF column # 0
    THEN [column |-> 0, ret |-> TRUE]
    ELSE [column |-> column, ret |-> FALSE]

\* The record of a call: what was called, with what, what it returned, and
\* the fields of the pad when it was called.
Call(op, delta, size, page, ret) ==
    [op |-> op, delta |-> delta, size |-> size, page |-> page, ret |-> ret,
     line0 |-> current_line, column0 |-> current_column,
     dim0 |-> dim, page0 |-> current_page]

\* PagePad.__init__(initial_num_lines)
PadInit ==
    /\ \E initial_num_lines \in {h \in Heights : h > 0} :
           dim = <<initial_num_lines, MAX_COLS>>
    /\ current_line = 0
    /\ current_column = 0
    /\ current_page = NoPage
    /\ last = [op |-> "init", delta |-> 0, size |-> 0, page |-> NoPage,
               ret |-> FALSE,
               line0 |-> 0, column0 |-> 0, dim0 |-> dim, page0 |-> NoPage]

\* Browser.load_page -> PagePad.show_page(page)
ShowPage ==
    \E page \in Pages :
        LET r == show_page(page, current_line, current_column) IN
        /\ current_page' = r.current_page
        /\ dim' = r.dim
        /\ current_line' = r.current_line
        /\ current_column' = r.current_column
        /\ last' = Call("show_page", 0, 0, page, FALSE)
        /\ UNCHANGED <<parse_vars, wrap_vars, layout_vars,
                       browser_vars, external_vars>>

\* Browser.scroll_page_vertically(by_lines) -> PagePad.scroll_v
ScrollV ==
    \E num_lines \in VDeltas, window_height \in Heights :
        LET r == scroll_v(current_line, dim[1], num_lines, window_height) IN
        /\ current_line' = r.line
        /\ last' = Call("scroll_v", num_lines, window_height, NoPage, r.ret)
        /\ UNCHANGED <<dim, current_column, current_page>>
        /\ UNCHANGED <<parse_vars, wrap_vars, layout_vars,
                       browser_vars, external_vars>>

\* Browser.scroll_page_horizontally(by_columns) -> PagePad.scroll_h
ScrollH ==
    \E num_columns \in HDeltas, window_width \in Widths :
        LET r == scroll_h(current_column, dim[2], num_columns, window_width) IN
        /\ current_column' = r.column
        /\ last' = Call("scroll_h", num_columns, window_width, NoPage, r.ret)
        /\ UNCHANGED <<dim, current_line, current_page>>
        /\ UNCHANGED <<parse_vars, wrap_vars, layout_vars,
                       browser_vars, external_vars>>

\* Browser.scroll_page_vertically(-inf) -> PagePad.go_to_beginning
GoToBeginning_resets_column ==
    LET r == go_to_beginning(current_line) IN
    /\ current_line' = r.line
    /\ current_column' = 0
    /\ last' = Call("go_to_beginning", 0, 0, NoPage, r.ret)
    /\ UNCHANGED <<dim, current_page>>
    /\ UNCHANGED <<parse_vars, wrap_vars, layout_vars,
                   browser_vars, external_vars>>

GoToBeginning ==
    LET r == go_to_beginning(current_line) IN
    /\ current_line' = r.line
    /\ last' = Call("go_to_beginning", 0, 0, NoPage, r.ret)
    /\ UNCHANGED <<dim, current_column, current_page>>
    /\ UNCHANGED <<parse_vars, wrap_vars, layout_vars,
                   browser_vars, external_vars>>

\* Browser.scroll_page_vertically(inf) -> PagePad.go_to_end
GoToEnd ==
    \E window_height \in Heights :
        LET r == go_to_end(current_line, dim[1], window_height) IN
        /\ current_line' = r.line
        /\ last' = Call("go_to_end", 0, window_height, NoPage, r.ret)
        /\ UNCHANGED <<dim, current_column, current_page>>
        /\ UNCHANGED <<parse_vars, wrap_vars, layout_vars,
                       browser_vars, external_vars>>

\* Browser.scroll_page_horizontally(-inf) -> PagePad.go_to_first_column
GoToFirstColumn ==
    LET r == go_to_first_column(current_column) IN
    /\ current_column' = r.column
    /\ last' = Call("go_to_first_column", 0, 0, NoPage, r.ret)
    /\ UNCHANGED <<dim, current_line, current_page>>
    /\ UNCHANGED <<parse_vars, wrap_vars, layout_vars,
                   browser_vars, external_vars>>

\* The parser is idle while the pad is driven.
ParseIdle ==
    /\ text = <<>>
    /\ pos = 1
    /\ elements = <<>>
    /\ preformatted = <<>>

\* No text is being wrapped.
WrapIdle ==
    /\ ww_text = <<>>
    /\ ww_width = 0
    /\ ww_indent = 0
    /\ ww_words = <<>>
    /\ ww_i = 1
    /\ ww_line = <<>>
    /\ ww_lines = <<>>
    /\ ww_pc = "idle"
    /\ ww_last = <<>>

\* No metalines are being generated.
LayoutIdle ==
    /\ gm_elements = <<>>
    /\ gm_options = <<>>
    /\ gm_index = 1
    /\ gm_metalines = <<>>
    /\ gm_has_margins = FALSE
    /\ gm_thin_type = 0
    /\ gm_last = <<>>

\* No url is being opened.
BrowserIdle ==
    /\ br_current_url = ""
    /\ br_history = <<>>
    /\ br_page = <<>>
    /\ br_status = <<>>
    /\ br_call = <<>>
    /\ br_op = <<>>

\* No external command is being called.
ExternalIdle ==
    /\ ext_command = <<>>
    /\ ext_pc = "idle"
    /\ ext_terminal = <<>>
    /\ ext_calls = <<>>
    /\ ext_result = <<>>

Idle == BrowserIdle /\ ExternalIdle

Init == PadInit /\ ParseIdle /\ WrapIdle /\ LayoutIdle /\ Idle

Next ==
    \/ ShowPage
    \/ ScrollV
    \/ ScrollH
    \/ GoToBeginning
    \/ GoToEnd
    \/ GoToFirstColumn

Spec == Init /\ [][Next]_vars

(***************************************************************************)
(* Properties of the page pad.                                             *)
(***************************************************************************)
rows == dim[1]
\* C1: on a loaded pad whose current_line was reached by scroll_v calls with
\* positive window heights (so it lies in [0, max(0, rows - 1)]), after a
\* scroll_v call with a positive window height current_line lies in
\* [0, max(0, rows - window_height)] for the height of that call.
C1_LineWithinClampOfCall ==
    (/\ last.op = "scroll_v"
     /\ last.size > 0
     /\ current_page # NoPage
     /\ 0 <= last.line0
     /\ last.line0 <= Max(0, rows - 1))
    => (0 <= current_line /\ current_line <= Max(0, rows - last.size))

\* C2: on a loaded pad, go_to_end with a positive window height leaves current_line at
\* max(0, rows - window_height), never below 0.
C2_GoToEndCeiling ==
    (last.op = "go_to_end" /\ last.size > 0 /\ current_page # NoPage)
    => current_line = Max(0, rows - last.size)

\* C3: on a loaded pad, a scroll call given a window height or width <= 0
\* returns False and changes neither current_line nor current_column.
C3_NonPositiveViewportNoop ==
    (/\ last.op \in {"scroll_v", "go_to_end", "scroll_h"}
     /\ last.size <= 0
     /\ current_page # NoPage)
    => (/\ last.ret = FALSE
        /\ current_line = last.line0
        /\ current_column = last.column0)

\* C4: on a loaded pad, scroll_v returns True exactly when it changed current_line, and
\* scroll_h returns True exactly when it changed current_column, for every
\* amount including 0.
C4_ReturnsWhetherChanged ==
    current_page # NoPage
    => (/\ last.op = "scroll_v" => (last.ret <=> current_line # last.line0)
        /\ last.op = "scroll_h"
           => (last.ret <=> current_column # last.column0))

\* C5: scroll_v upwards from line 0 returns False and changes nothing;
\* scroll_v downwards from line max(0, rows - window_height) with that window
\* height returns False and changes nothing; so does scroll_v downwards
\* right after go_to_end with the same window height.
C5_Step ==
    LET call == last'
        noop == /\ call.ret = FALSE
                /\ UNCHANGED <<dim, current_line, current_column, current_page>>
    IN
    /\ (/\ call.op = "scroll_v"
        /\ call.delta < 0
        /\ current_line = 0) => noop
    /\ (/\ call.op = "scroll_v"
        /\ call.delta > 0
        /\ current_line = Max(0, rows - call.size)) => noop
    /\ (/\ last.op = "go_to_end"
        /\ call.op = "scroll_v"
        /\ call.delta > 0
        /\ call.size = last.size) => noop

C5_BoundaryScrollIsNoop == [][C5_Step]_vars

\* C5 witness: a downward scroll_v was made from the ceiling of a page longer
\* than the window, and an upward one from line 0 is possible too.
C5_Witness ==
    /\ last.op = "scroll_v"
    /\ last.delta > 0
    /\ last.size > 0
    /\ rows > last.size
    /\ last.line0 = rows - last.size
    /\ last.ret = FALSE

\* C6: show_page makes the page it is given the current page and resets
\* current_line and current_column to 0.
C6_ShowPageResets ==
    last.op = "show_page"
    => (/\ current_page = last.page
        /\ current_line = 0
        /\ current_column = 0)

\* C6 witness: a page was shown while another one was scrolled both ways.
C6_Witness ==
    /\ last.op = "show_page"
    /\ last.line0 # 0
    /\ last.column0 # 0
    /\ last.page0 # NoPage
    /\ last.page0 # current_page

\* C7: with rows >= window_height > 0 and a starting line c in
\* [0, rows - window_height], scroll_v by delta > 0 leaves
\* min(c + delta, rows - window_height) and by delta < 0 leaves
\* max(c - |delta|, 0).
C7_ScrollVClamps ==
    (/\ last.op = "scroll_v"
     /\ last.size > 0
     /\ rows >= last.size
     /\ 0 <= last.line0
     /\ last.line0 <= rows - last.size)
    => (/\ last.delta > 0
           => current_line = Min(last.line0 + last.delta, rows - last.size)
        /\ last.delta < 0
           => current_line = Max(last.line0 + last.delta, 0))

\* C7 witness: an oversized downward scroll landed exactly on the ceiling.
C7_Witness ==
    /\ last.op = "scroll_v"
    /\ last.size > 0
    /\ last.delta > rows
    /\ 0 <= last.line0
    /\ last.line0 < rows - last.size
    /\ current_line = rows - last.size

\* C8: from a column reached by scroll_h calls with positive window widths
\* (so it lies in [0, MAX_COLS - 1]), after a scroll_h call with a positive
\* window width current_column lies in [0, max(0, MAX_COLS - window_width)]
\* for the width of that call; go_to_first_column sets current_column to 0
\* and returns True exactly when it was not 0.
C8_ColumnWithinClampOfCall ==
    /\ (/\ last.op = "scroll_h"
        /\ last.size > 0
        /\ 0 <= last.column0
        /\ last.column0 <= MAX_COLS - 1)
       => (/\ 0 <= current_column
           /\ current_column <= Max(0, MAX_COLS - last.size))
    /\ last.op = "go_to_first_column"
       => (current_column = 0 /\ (last.ret <=> last.column0 # 0))

\* C26: scroll_v, go_to_beginning and go_to_end leave current_column as it
\* was, scroll_h and go_to_first_column leave current_line as it was, and
\* none of them changes dim (rows and columns) or the current page.
C26_ScrollFrame ==
    /\ last.op \in {"scroll_v", "go_to_beginning", "go_to_end"}
       => current_column = last.column0
    /\ last.op \in {"scroll_h", "go_to_first_column"}
       => current_line = last.line0
    /\ last.op \in {"scroll_v", "go_to_beginning", "go_to_end", "scroll_h",
                    "go_to_first_column"}
       => (dim = last.dim0 /\ current_page = last.page0)

\* C26 witness: the pad was brought back to its first line while scrolled to
\* the right.
C26_Witness ==
    /\ last.op = "go_to_beginning"
    /\ last.ret
    /\ current_column > 0
    /\ current_page # NoPage

(***************************************************************************)
(* bebop/gemtext.py: parse_gemtext                                         *)
(***************************************************************************)
MaxLines == 4

\* A line is a sequence of characters.
Space == {" ", "\t"}
\* The backquote character (a TLA+ string cannot hold it).
Backquote == "bq"
FENCE == <<Backquote, Backquote, Backquote>>

\* The lines a text is made of: "# t", "=>u t", the fence, the fence followed
\* by "x", "> q", "* i", "p " (trailing space), " " (blank once stripped)
\* and "#t".
Lines ==
    { <<"#", " ", "t">>,
      <<"=", ">", "u", " ", "t">>,
      FENCE,
      FENCE \o <<"x">>,
      <<">", " ", "q">>,
      <<"*", " ", "i">>,
      <<"p", " ">>,
      <<" ">>,
      <<"#", "t">> }

\* The texts, as text.splitlines() returns them.
Texts == UNION {[1..n -> Lines] : n \in 0..MaxLines}

Drop(s, n) == SubSeq(s, n + 1, Len(s))
Take(s, n) == SubSeq(s, 1, n)

\* The number of leading characters of s that are in the set C.
RECURSIVE CountLeading(_, _)
CountLeading(s, C) ==
    IF s # <<>> /\ s[1] \in C THEN 1 + CountLeading(Drop(s, 1), C) ELSE 0

\* The number of leading characters of s that are not in the set C.
RECURSIVE CountLeadingNot(_, _)
CountLeadingNot(s, C) ==
    IF s # <<>> /\ s[1] \notin C THEN 1 + CountLeadingNot(Drop(s, 1), C) ELSE 0

\* str.rstrip()
RECURSIVE rstrip(_)
rstrip(s) ==
    IF s # <<>> /\ s[Len(s)] \in Space THEN rstrip(Take(s, Len(s) - 1)) ELSE s

\* str.startswith(prefix)
startswith(s, prefix) ==
    Len(s) >= Len(prefix) /\ Take(s, Len(prefix)) = prefix

\* Title.RE.match(line), r"(#{1,3})\s+(.+)": <<>> if no match, else
\* <<[hashtags, text]>>.
Title_RE(line) ==
    LET h == CountLeading(line, {"#"})
        rest == Drop(line, h)
        w == CountLeading(rest, Space)
    IN  IF h \in 1..3 /\ w >= 1 /\ Len(rest) > w
        THEN <<[hashtags |-> h, text |-> Drop(rest, w)]>>
        ELSE IF h \in 1..3 /\ w >= 2
        THEN <<[hashtags |-> h, text |-> Drop(rest, w - 1)]>>
        ELSE <<>>

\* Link.RE.match(line), r"=>\s*(?P<url>\S+)(\s+(?P<text>.+))?": <<>> if no
\* match, else <<[url, text]>>; a text group that did not match is <<>>.
Link_RE(line) ==
    LET rest == Drop(line, 2)
        r2 == Drop(rest, CountLeading(rest, Space))
        u == CountLeadingNot(r2, Space)
        r3 == Drop(r2, u)
        w == CountLeading(r3, Space)
    IN  IF startswith(line, <<"=", ">">>) /\ u >= 1
        THEN <<[url |-> Take(r2, u),
                text |-> IF w >= 1 /\ Len(r3) > w THEN Drop(r3, w)
                         ELSE IF w >= 2 THEN Drop(r3, w - 1)
                         ELSE <<>>]>>
        ELSE <<>>

\* Blockquote.RE.match(line), r">\s*(.*)": <<>> if no match, else <<text>>.
Blockquote_RE(line) ==
    IF startswith(line, <<">">>)
    THEN LET rest == Drop(line, 1)
         IN <<Drop(rest, CountLeading(rest, Space))>>
    ELSE <<>>

\* ListItem.RE.match(line), r"\*\s(.*)": <<>> if no match, else <<text>>.
ListItem_RE(line) ==
    IF Len(line) >= 2 /\ line[1] = "*" /\ line[2] \in Space
    THEN <<Drop(line, 2)>>
    ELSE <<>>

\* The element dataclasses.
Paragraph(t) == [kind |-> "Paragraph", text |-> t]
Title(level, t) == [kind |-> "Title", level |-> level, text |-> t]
Link(url, t) == [kind |-> "Link", url |-> url, text |-> t]
Preformatted(lines) == [kind |-> "Preformatted", lines |-> lines]
Blockquote(t) == [kind |-> "Blockquote", text |-> t]
ListItem(t) == [kind |-> "ListItem", text |-> t]

\* One iteration of the for loop of parse_gemtext on the raw line, from the
\* state st = [elements, preformatted] to the next one.
ParseBody(st, raw) ==
    LET line == rstrip(raw)
        title == Title_RE(line)
        link == Link_RE(line)
        quote == Blockquote_RE(line)
        item == ListItem_RE(line)
    IN  IF line = <<>> THEN st
        ELSE IF title # <<>>
        THEN [st EXCEPT !.elements =
                 Append(@, Title(title[1].hashtags, title[1].text))]
        ELSE IF link # <<>>
        THEN [st EXCEPT !.elements =
                 Append(@, Link(link[1].url, link[1].text))]
        ELSE IF startswith(line, FENCE)
        THEN IF st.preformatted # <<>>
             THEN [elements |-> Append(st.elements, st.preformatted[1]),
                   preformatted |-> <<>>]
             ELSE [st EXCEPT !.preformatted = <<Preformatted(<<>>)>>]
        ELSE IF quote # <<>>
        THEN [st EXCEPT !.elements = Append(@, Blockquote(quote[1]))]
        ELSE IF item # <<>>
        THEN [st EXCEPT !.elements = Append(@, ListItem(item[1]))]
        ELSE IF st.preformatted # <<>>
        THEN [st EXCEPT !.preformatted =
                 <<Preformatted(Append(@[1].lines, line))>>]
        ELSE [st EXCEPT !.elements = Append(@, Paragraph(line))]

\* The state of the loop of parse_gemtext after all the lines of t.
RECURSIVE ParseLoop(_)
ParseLoop(t) ==
    IF t = <<>>
    THEN [elements |-> <<>>, preformatted |-> <<>>]
    ELSE ParseBody(ParseLoop(Take(t, Len(t) - 1)), t[Len(t)])

\* parse_gemtext(text): the elements returned.
parse_gemtext(t) == ParseLoop(t).elements

\* parse_gemtext is called with a text.
ParseInit ==
    /\ text \in Texts
    /\ pos = 1
    /\ elements = <<>>
    /\ preformatted = <<>>

\* One iteration of the for loop.
ParseLine ==
    /\ pos <= Len(text)
    /\ LET st == ParseBody([elements |-> elements,
                            preformatted |-> preformatted], text[pos])
       IN  /\ elements' = st.elements
           /\ preformatted' = st.preformatted
    /\ pos' = pos + 1
    /\ UNCHANGED <<text, pad_vars, wrap_vars, layout_vars,
                   browser_vars, external_vars>>

\* The loop is over: parse_gemtext returns elements.
ParseDone == pos = Len(text) + 1

\* The pad is idle while a text is parsed.
PadIdle ==
    /\ dim = <<1, MAX_COLS>>
    /\ current_line = 0
    /\ current_column = 0
    /\ current_page = NoPage
    /\ last = [op |-> "init", delta |-> 0, size |-> 0, page |-> NoPage,
               ret |-> FALSE,
               line0 |-> 0, column0 |-> 0, dim0 |-> dim, page0 |-> NoPage]

InitParse == PadIdle /\ ParseInit /\ WrapIdle /\ LayoutIdle /\ Idle

NextParse == ParseLine

SpecParse == InitParse /\ [][NextParse]_vars

(***************************************************************************)
(* Properties of the parser.                                               *)
(***************************************************************************)
\* C9: while a fence is open, a line that is neither blank nor a fence is
\* appended to the lines of the open Preformatted block and adds no element,
\* whatever pattern it matches.
C9_Step ==
    (/\ pos <= Len(text)
     /\ preformatted # <<>>
     /\ rstrip(text[pos]) # <<>>
     /\ ~startswith(rstrip(text[pos]), FENCE))
    => (/\ elements' = elements
        /\ preformatted' =
               <<Preformatted(Append(preformatted[1].lines,
                                     rstrip(text[pos])))>>)

C9_OpenFenceTakesEveryLine == [][C9_Step]_vars

\* The indexes of the fence lines of the text.
FenceLines == {i \in 1..Len(text) : startswith(rstrip(text[i]), FENCE)}
LastOf(S) == CHOOSE i \in S : \A j \in S : j <= i
NumPreformatted ==
    Cardinality({i \in 1..Len(elements) : elements[i].kind = "Preformatted"})

\* C10: when the text ends with a fence open (an odd number of fence lines),
\* the elements returned are those of the text before the last opening fence
\* (no block for the open fence, nothing from the lines after it), and the
\* number of Preformatted elements is the number of closed fence pairs.
C10_UnterminatedFenceDropped ==
    (ParseDone /\ Cardinality(FenceLines) % 2 = 1)
    => (/\ elements = parse_gemtext(Take(text, LastOf(FenceLines) - 1))
        /\ NumPreformatted = Cardinality(FenceLines) \div 2)

(***************************************************************************)
(* bebop/metalines.py: wrap_words                                          *)
(***************************************************************************)
MaxWidth == 6

SPLIT_CHARS == <<" ", "\t", "-">>
JOIN_CHAR == "-"

\* " " * n
RECURSIVE Spaces(_)
Spaces(n) == IF n <= 0 THEN <<>> ELSE <<" ">> \o Spaces(n - 1)

\* str.lstrip()
RECURSIVE lstrip(_)
lstrip(s) == IF s # <<>> /\ s[1] \in Space THEN lstrip(Drop(s, 1)) ELSE s

\* A slice index of Python brought into 0..Len(s): a negative one counts
\* from the end.
SliceIndex(s, k) ==
    IF k < 0 THEN Max(Len(s) + k, 0) ELSE Min(k, Len(s))
\* s[:k]
SliceTo(s, k) == Take(s, SliceIndex(s, k))
\* s[k:]
SliceFrom(s, k) == Drop(s, SliceIndex(s, k))

\* _find_next_sep(text): <<>> when text holds no separator, else
\* <<[sep, index]>> with the 0-based index of the first separator.
_find_next_sep(t) ==
    LET found == {i \in 1..Len(t) :
                     \E k \in 1..Len(SPLIT_CHARS) : t[i] = SPLIT_CHARS[k]}
    IN  IF found = {} THEN <<>>
        ELSE LET i == CHOOSE i \in found : \A j \in found : i <= j
             IN <<[sep |-> t[i], index |-> i - 1]>>

\* _explode_words(text)
RECURSIVE _explode_words(_)
_explode_words(t) ==
    LET next == _find_next_sep(t) IN
    IF next = <<>> THEN <<t>>
    ELSE LET sep == next[1].sep
             word == Take(t, next[1].index)
             rest == Drop(t, next[1].index + 1)
         IN  IF sep \in Space
             THEN <<word, <<sep>>>> \o _explode_words(rest)
             ELSE <<word \o <<sep>>>> \o _explode_words(rest)

\* The while loop of wrap_words that splits a word longer than the width:
\* the lines it pushes, the word it leaves, and whether it runs forever
\* (an iteration that leaves the word as it was is repeated without end).
RECURSIVE ForceSplit_no_room_for_join(_, _, _)
ForceSplit_no_room_for_join(word, width, indent) ==
    IF ~(Len(word) > width)
    THEN [lines |-> <<>>, word |-> word, diverges |-> FALSE]
    ELSE LET split_offset == width - indent
             word_line == Spaces(indent) \o SliceTo(word, split_offset)
                          \o <<JOIN_CHAR>>
             rest == SliceFrom(word, split_offset)
         IN  IF rest = word
             THEN [lines |-> <<word_line>>, word |-> word, diverges |-> TRUE]
             ELSE LET r == ForceSplit_no_room_for_join(rest, width, indent)
                  IN [lines |-> <<word_line>> \o r.lines, word |-> r.word,
                      diverges |-> r.diverges]

RECURSIVE ForceSplit(_, _, _)
ForceSplit(word, width, indent) ==
    IF ~(Len(word) > width)
    THEN [lines |-> <<>>, word |-> word, diverges |-> FALSE]
    ELSE LET split_offset == width - 1 - indent
             word_line == Spaces(indent) \o SliceTo(word, split_offset)
                          \o <<JOIN_CHAR>>
             rest == SliceFrom(word, split_offset)
         IN  IF rest = word
             THEN [lines |-> <<word_line>>, word |-> word, diverges |-> TRUE]
             ELSE LET r == ForceSplit(rest, width, indent)
                  IN [lines |-> <<word_line>> \o r.lines, word |-> r.word,
                      diverges |-> r.diverges]

\* One iteration of the for loop of wrap_words on a word, from the state
\* st = [line, lines]: the next line and lines, whether the loop runs
\* forever, and what the iteration did (the line it pushed if any, the lines
\* the forced split pushed, the word left to add to the line).
WrapBody(st, word, width, indent) ==
    LET line_len == Len(st.line)
        word_len == Len(word)
        push == line_len > 0
        lines1 == IF push THEN Append(st.lines, st.line) ELSE st.lines
        line1 == IF push THEN Spaces(indent) ELSE st.line
        AfterSplit(split) ==
            [line |-> line1 \o lstrip(split.word),
             lines |-> lines1 \o split.lines,
             diverges |-> split.diverges,
             pushed |-> IF push THEN <<st.line>> ELSE <<>>,
             split |-> split.lines,
             left |-> split.word]
    IN  IF line_len + word_len > width
        THEN AfterSplit(ForceSplit(word, width, indent))
        ELSE [line |-> st.line \o word,
              lines |-> st.lines,
              diverges |-> FALSE,
              pushed |-> <<>>,
              split |-> <<>>,
              left |-> word]

\* The for loop of wrap_words over the words ws.
RECURSIVE WrapLoop(_, _, _)
WrapLoop(ws, width, indent) ==
    IF ws = <<>>
    THEN [line |-> Spaces(indent), lines |-> <<>>, diverges |-> FALSE]
    ELSE LET State(r) ==
                 [line |-> r.line, lines |-> r.lines, diverges |-> r.diverges]
             Iterate(st) ==
                 IF st.diverges THEN st
                 ELSE State(WrapBody(st, ws[Len(ws)], width, indent))
         IN  Iterate(WrapLoop(Take(ws, Len(ws) - 1), width, indent))

\* wrap_words(text, width, indent): the lines returned, unless it runs
\* forever.
wrap_words(t, width, indent) ==
    LET Return(st) ==
            [lines |-> IF st.line # <<>> THEN Append(st.lines, st.line)
                       ELSE st.lines,
             diverges |-> st.diverges]
    IN  Return(WrapLoop(_explode_words(t), width, indent))

\* The texts wrapped: "abcdef", "ab cd", "abcd", "ab  cd", "abc-defg h", "a"
WrapTexts ==
    { <<"a", "b", "c", "d", "e", "f">>,
      <<"a", "b", " ", "c", "d">>,
      <<"a", "b", "c", "d">>,
      <<"a", "b", " ", " ", "c", "d">>,
      <<"a", "b", "c", "-", "d", "e", "f", "g", " ", "h">>,
      <<"a">> }
\* The widths of the renderer.
WrapWidths == 1..MaxWidth
\* The indents the formatters ask for: none, 2 (level 2 titles, blockquotes,
\* a 2-character bullet) and 4 (a link anchor such as "[1] ").
WrapIndents == {0, 2, 4}

\* wrap_words(text, width, indent) is called.
WrapInit ==
    /\ ww_text \in WrapTexts
    /\ ww_width \in WrapWidths
    /\ ww_indent \in WrapIndents
    /\ ww_words = _explode_words(ww_text)
    /\ ww_i = 1
    /\ ww_line = Spaces(ww_indent)
    /\ ww_lines = <<>>
    /\ ww_pc = "loop"
    /\ ww_last = [word |-> <<>>, line0 |-> <<>>, pushed |-> <<>>,
                  split |-> <<>>, left |-> <<>>]

\* One iteration of the for loop.
WrapWord ==
    /\ ww_pc = "loop"
    /\ ww_i <= Len(ww_words)
    /\ \E r \in {WrapBody([line |-> ww_line, lines |-> ww_lines],
                          ww_words[ww_i], ww_width, ww_indent)} :
           /\ ww_line' = r.line
           /\ ww_lines' = r.lines
           /\ ww_pc' = IF r.diverges THEN "diverged" ELSE "loop"
           /\ ww_last' = [word |-> ww_words[ww_i], line0 |-> ww_line,
                          pushed |-> r.pushed, split |-> r.split,
                          left |-> r.left]
    /\ ww_i' = ww_i + 1
    /\ UNCHANGED <<ww_text, ww_width, ww_indent, ww_words>>
    /\ UNCHANGED <<pad_vars, parse_vars, layout_vars,
                   browser_vars, external_vars>>

\* The loop is over: the line left is pushed if not empty, lines is returned.
WrapReturn ==
    /\ ww_pc = "loop"
    /\ ww_i = Len(ww_words) + 1
    /\ ww_lines' = IF ww_line # <<>> THEN Append(ww_lines, ww_line)
                   ELSE ww_lines
    /\ ww_pc' = "returned"
    /\ UNCHANGED <<ww_text, ww_width, ww_indent, ww_words, ww_i, ww_line,
                   ww_last>>
    /\ UNCHANGED <<pad_vars, parse_vars, layout_vars,
                   browser_vars, external_vars>>

InitWrap == PadIdle /\ ParseIdle /\ WrapInit /\ LayoutIdle /\ Idle

NextWrap == WrapWord \/ WrapReturn

SpecWrap == InitWrap /\ [][NextWrap]_vars

(***************************************************************************)
(* Properties of wrap_words.                                               *)
(***************************************************************************)
\* C12: every line wrap_words returns is at most width characters long, for
\* every text, width > 0 and indent of the formatters.
C12_WrappedLinesFitWidth ==
    ww_pc = "returned"
    => \A k \in 1..Len(ww_lines) : Len(ww_lines[k]) <= ww_width

\* C13: wrap_words terminates for every text, width > 0 and indent of the
\* formatters: its while loop never runs forever.
C13_WrapTerminates == ww_pc # "diverged"

\* C22: the line wrap_words pushes when the next word would overflow it has
\* content after the indent: no pushed line is made of the indent spaces
\* only.
C22_FlushedLineHasContent ==
    (ww_pc # "idle" /\ ww_last.pushed # <<>>)
    => ww_last.pushed[1] # Spaces(ww_indent)

\* The concatenation of the sequences of a sequence.
RECURSIVE Flatten(_)
Flatten(ss) == IF ss = <<>> THEN <<>> ELSE ss[1] \o Flatten(Drop(ss, 1))

\* C23: when width - 1 - indent >= 1, every line the forced split of a word
\* longer than width pushes is exactly width characters long: the indent,
\* the next width - 1 - indent characters of the word and the join
\* character; the chunks and the word left are the word, in order.
C23_SplitFragmentsAreWidthLong ==
    (/\ ww_pc # "idle"
     /\ ww_width - 1 - ww_indent >= 1
     /\ ww_last.split # <<>>)
    => LET split_offset == ww_width - 1 - ww_indent
           n == Len(ww_last.split)
           chunk(k) == SubSeq(ww_last.word, (k - 1) * split_offset + 1,
                              k * split_offset)
       IN  /\ Len(ww_last.word) > ww_width
           /\ ww_pc # "diverged"
           /\ \A k \in 1..n :
                  /\ Len(ww_last.split[k]) = ww_width
                  /\ Len(chunk(k)) = split_offset
                  /\ ww_last.split[k] =
                         Spaces(ww_indent) \o chunk(k) \o <<JOIN_CHAR>>
           /\ Len(ww_last.left) <= ww_width
           /\ Flatten([k \in 1..n |-> chunk(k)]) \o ww_last.left
                  = ww_last.word

\* C23 witness: an indented word was split into two lines or more and a
\* rest.
C23_Witness ==
    /\ ww_pc # "idle"
    /\ ww_indent > 0
    /\ ww_width - 1 - ww_indent >= 1
    /\ Len(ww_last.split) >= 2
    /\ ww_last.left # <<>>

(***************************************************************************)
(* bebop/metalines.py: the formatters and generate_metalines               *)
(***************************************************************************)
MaxBlocks == 3
NarrowWidth == 4
NormalWidth == 8

\* LineType
NONE == 0
TITLE_1 == 1
TITLE_2 == 2
TITLE_3 == 3
PARAGRAPH == 4
LINK == 5
PREFORMATTED == 6
BLOCKQUOTE == 7
LIST_ITEM == 8

\* RENDER_MODES
RENDER_MODES == {"fancy", "dumb"}

\* A metaline (ltype, line, lextra); lextra is <<>> for None, else <<dict>>.
Metaline(ltype, line, lextra) ==
    [ltype |-> ltype, line |-> line, lextra |-> lextra]

\* str(n) for n >= 0
DigitChars == <<"0", "1", "2", "3", "4", "5", "6", "7", "8", "9">>
RECURSIVE Digits(_)
Digits(n) ==
    IF n < 10 THEN <<DigitChars[n + 1]>>
    ELSE Digits(n \div 10) \o <<DigitChars[(n % 10) + 1]>>

\* f"{{:^{width}}}".format(line): line centered in width columns, the odd
\* space of the padding on the right.
Center_odd_space_left(line, width) ==
    IF Len(line) >= width THEN line
    ELSE LET pad == width - Len(line)
             right == pad \div 2
         IN Spaces(pad - right) \o line \o Spaces(right)

Center(line, width) ==
    IF Len(line) >= width THEN line
    ELSE LET pad == width - Len(line)
             left == pad \div 2
         IN Spaces(left) \o line \o Spaces(pad - left)

\* [(ltype, line, None) for line in lines]
RECURSIVE PlainMetalines(_, _)
PlainMetalines(ltype, lines) ==
    IF lines = <<>> THEN <<>>
    ELSE <<Metaline(ltype, lines[1], <<>>)>>
         \o PlainMetalines(ltype, Drop(lines, 1))

\* [line_template.format(line) for line in wrapped]
RECURSIVE CenterAll(_, _)
CenterAll(lines, width) ==
    IF lines = <<>> THEN <<>>
    ELSE <<Center(lines[1], width)>> \o CenterAll(Drop(lines, 1), width)

\* The formatters return [metalines, diverges]: no metalines are returned
\* when wrap_words runs forever.
Formatted(ltype, wrapped) ==
    [metalines |-> IF wrapped.diverges THEN <<>>
                   ELSE PlainMetalines(ltype, wrapped.lines),
     diverges |-> wrapped.diverges]

\* format_title(title, options)
format_title(title, options) ==
    LET width == options.width IN
    IF title.level = 1
    THEN LET wrapped == wrap_words(title.text, width, 0)
         IN Formatted(title.level,
                      [wrapped EXCEPT !.lines = CenterAll(@, width)])
    ELSE IF title.level = 2
    THEN Formatted(title.level, wrap_words(title.text, width, 2))
    ELSE Formatted(title.level, wrap_words(title.text, width, 0))

\* format_paragraph(paragraph, options)
format_paragraph(paragraph, options) ==
    Formatted(PARAGRAPH, wrap_words(paragraph.text, options.width, 0))

\* The anchor of a link, f"[{link.ident}] "
LinkAnchor(ident) == <<"[">> \o Digits(ident) \o <<"]", " ">>

\* format_link(link, options)
format_link_extra_on_every_line(link, options) ==
    LET link_anchor == LinkAnchor(link.ident)
        link_text == IF link.text # <<>> THEN link.text ELSE link.url
        wrapped == wrap_words(link_text, options.width, Len(link_anchor))
        first_line_extra == <<[url |-> link.url, link_id |-> link.ident]>>
    IN  IF wrapped.diverges THEN [metalines |-> <<>>, diverges |-> TRUE]
        ELSE [metalines |->
                  [k \in 1..Len(wrapped.lines) |->
                      Metaline(LINK,
                               IF k = 1
                               THEN link_anchor
                                    \o SliceFrom(wrapped.lines[1],
                                                 Len(link_anchor))
                               ELSE wrapped.lines[k],
                               first_line_extra)],
              diverges |-> FALSE]

format_link_extra_on_other_lines(link, options) ==
    LET link_anchor == LinkAnchor(link.ident)
        link_text == IF link.text # <<>> THEN link.text ELSE link.url
        wrapped == wrap_words(link_text, options.width, Len(link_anchor))
        first_line_extra == <<[url |-> link.url, link_id |-> link.ident]>>
    IN  IF wrapped.diverges THEN [metalines |-> <<>>, diverges |-> TRUE]
        ELSE [metalines |->
                  [k \in 1..Len(wrapped.lines) |->
                      Metaline(LINK,
                               IF k = 1
                               THEN link_anchor
                                    \o SliceFrom(wrapped.lines[1],
                                                 Len(link_anchor))
                               ELSE wrapped.lines[k],
                               IF k = 1 THEN <<>> ELSE first_line_extra)],
              diverges |-> FALSE]

format_link_wraps_url(link, options) ==
    LET link_anchor == LinkAnchor(link.ident)
        link_text == link.url
        wrapped == wrap_words(link_text, options.width, Len(link_anchor))
        first_line_extra == <<[url |-> link.url, link_id |-> link.ident]>>
    IN  IF wrapped.diverges THEN [metalines |-> <<>>, diverges |-> TRUE]
        ELSE LET lines == wrapped.lines
                 first_line_text ==
                     link_anchor \o SliceFrom(lines[1], Len(link_anchor))
                 first_line == <<Metaline(LINK, first_line_text,
                                          first_line_extra)>>
                 other_lines == PlainMetalines(LINK, Drop(lines, 1))
             IN [metalines |-> first_line \o other_lines,
                 diverges |-> FALSE]

format_link(link, options) ==
    LET link_anchor == LinkAnchor(link.ident)
        link_text == IF link.text # <<>> THEN link.text ELSE link.url
        wrapped == wrap_words(link_text, options.width, Len(link_anchor))
        first_line_extra == <<[url |-> link.url, link_id |-> link.ident]>>
    IN  IF wrapped.diverges THEN [metalines |-> <<>>, diverges |-> TRUE]
        ELSE LET lines == wrapped.lines
                 first_line_text ==
                     link_anchor \o SliceFrom(lines[1], Len(link_anchor))
                 first_line == <<Metaline(LINK, first_line_text,
                                          first_line_extra)>>
                 other_lines == PlainMetalines(LINK, Drop(lines, 1))
             IN [metalines |-> first_line \o other_lines,
                 diverges |-> FALSE]

\* format_preformatted(preformatted, options)
format_preformatted(block, options) ==
    [metalines |-> PlainMetalines(PREFORMATTED, block.lines),
     diverges |-> FALSE]

\* format_blockquote(blockquote, options)
format_blockquote(blockquote, options) ==
    Formatted(BLOCKQUOTE, wrap_words(blockquote.text, options.width, 2))

\* format_list_item(item, options)
format_list_item(item, options) ==
    LET indent == Len(options.bullet)
        wrapped == wrap_words(item.text, options.width, indent)
    IN  IF wrapped.diverges THEN [metalines |-> <<>>, diverges |-> TRUE]
        ELSE LET lines == wrapped.lines
                 first_line == options.bullet \o SliceFrom(lines[1], indent)
             IN Formatted(LIST_ITEM,
                          [wrapped EXCEPT !.lines =
                               <<first_line>> \o Drop(lines, 1)])

\* The separator of generate_metalines.
separator == Metaline(NONE, <<>>, <<>>)

\* One iteration of the for loop of generate_metalines on the element at the
\* 0-based index, from the state st = [metalines, has_margins, thin_type]:
\* the next state, whether a formatter runs forever, and what the iteration
\* did (the metalines of the element, whether it added the separator).
GenBody_margin_from_third(st, element, index, options) ==
    LET previous_had_margins == st.has_margins
        last_thin_type == st.thin_type
        kind == element.kind
        has_margins ==
            kind \in {"Title", "Paragraph", "Preformatted", "Blockquote"}
        thin_type == IF kind = "Link" THEN LINK
                     ELSE IF kind = "ListItem" THEN LIST_ITEM
                     ELSE 0
        formatted ==
            IF kind = "Title" THEN format_title(element, options)
            ELSE IF kind = "Paragraph" THEN format_paragraph(element, options)
            ELSE IF kind = "Link" THEN format_link(element, options)
            ELSE IF kind = "Preformatted"
            THEN format_preformatted(element, options)
            ELSE IF kind = "Blockquote"
            THEN format_blockquote(element, options)
            ELSE format_list_item(element, options)
        dumb == options.mode = "dumb"
        element_metalines ==
            IF dumb /\ formatted.metalines = <<>>
            THEN <<Metaline(PARAGRAPH, <<>>, <<>>)>>
            ELSE formatted.metalines
        separated ==
            /\ ~dumb
            /\ \/ has_margins /\ index > 1
               \/ ~has_margins /\ previous_had_margins
               \/ ~has_margins /\ thin_type # last_thin_type
    IN  [metalines |-> (IF separated THEN Append(st.metalines, separator)
                        ELSE st.metalines) \o element_metalines,
         has_margins |-> has_margins,
         thin_type |-> thin_type,
         diverges |-> formatted.diverges,
         element_metalines |-> element_metalines,
         separated |-> separated]

GenBody_separates_all_thin(st, element, index, options) ==
    LET previous_had_margins == st.has_margins
        last_thin_type == st.thin_type
        kind == element.kind
        has_margins ==
            kind \in {"Title", "Paragraph", "Preformatted", "Blockquote"}
        thin_type == IF kind = "Link" THEN LINK
                     ELSE IF kind = "ListItem" THEN LIST_ITEM
                     ELSE 0
        formatted ==
            IF kind = "Title" THEN format_title(element, options)
            ELSE IF kind = "Paragraph" THEN format_paragraph(element, options)
            ELSE IF kind = "Link" THEN format_link(element, options)
            ELSE IF kind = "Preformatted"
            THEN format_preformatted(element, options)
            ELSE IF kind = "Blockquote"
            THEN format_blockquote(element, options)
            ELSE format_list_item(element, options)
        dumb == options.mode = "dumb"
        element_metalines ==
            IF dumb /\ formatted.metalines = <<>>
            THEN <<Metaline(PARAGRAPH, <<>>, <<>>)>>
            ELSE formatted.metalines
        separated ==
            /\ ~dumb
            /\ \/ has_margins /\ index > 0
               \/ ~has_margins /\ previous_had_margins
               \/ ~has_margins
    IN  [metalines |-> (IF separated THEN Append(st.metalines, separator)
                        ELSE st.metalines) \o element_metalines,
         has_margins |-> has_margins,
         thin_type |-> thin_type,
         diverges |-> formatted.diverges,
         element_metalines |-> element_metalines,
         separated |-> separated]

GenBody_dumb_separates(st, element, index, options) ==
    LET previous_had_margins == st.has_margins
        last_thin_type == st.thin_type
        kind == element.kind
        has_margins ==
            kind \in {"Title", "Paragraph", "Preformatted", "Blockquote"}
        thin_type == IF kind = "Link" THEN LINK
                     ELSE IF kind = "ListItem" THEN LIST_ITEM
                     ELSE 0
        formatted ==
            IF kind = "Title" THEN format_title(element, options)
            ELSE IF kind = "Paragraph" THEN format_paragraph(element, options)
            ELSE IF kind = "Link" THEN format_link(element, options)
            ELSE IF kind = "Preformatted"
            THEN format_preformatted(element, options)
            ELSE IF kind = "Blockquote"
            THEN format_blockquote(element, options)
            ELSE format_list_item(element, options)
        dumb == options.mode = "dumb"
        element_metalines == formatted.metalines
        separated ==
            \/ has_margins /\ index > 0
            \/ ~has_margins /\ previous_had_margins
            \/ ~has_margins /\ thin_type # last_thin_type
    IN  [metalines |-> (IF separated THEN Append(st.metalines, separator)
                        ELSE st.metalines) \o element_metalines,
         has_margins |-> has_margins,
         thin_type |-> thin_type,
         diverges |-> formatted.diverges,
         element_metalines |-> element_metalines,
         separated |-> separated]

GenBody(st, element, index, options) ==
    LET previous_had_margins == st.has_margins
        last_thin_type == st.thin_type
        kind == element.kind
        has_margins ==
            kind \in {"Title", "Paragraph", "Preformatted", "Blockquote"}
        thin_type == IF kind = "Link" THEN LINK
                     ELSE IF kind = "ListItem" THEN LIST_ITEM
                     ELSE 0
        formatted ==
            IF kind = "Title" THEN format_title(element, options)
            ELSE IF kind = "Paragraph" THEN format_paragraph(element, options)
            ELSE IF kind = "Link" THEN format_link(element, options)
            ELSE IF kind = "Preformatted"
            THEN format_preformatted(element, options)
            ELSE IF kind = "Blockquote"
            THEN format_blockquote(element, options)
            ELSE format_list_item(element, options)
        dumb == options.mode = "dumb"
        element_metalines ==
            IF dumb /\ formatted.metalines = <<>>
            THEN <<Metaline(PARAGRAPH, <<>>, <<>>)>>
            ELSE formatted.metalines
        separated ==
            /\ ~dumb
            /\ \/ has_margins /\ index > 0
               \/ ~has_margins /\ previous_had_margins
               \/ ~has_margins /\ thin_type # last_thin_type
    IN  [metalines |-> (IF separated THEN Append(st.metalines, separator)
                        ELSE st.metalines) \o element_metalines,
         has_margins |-> has_margins,
         thin_type |-> thin_type,
         diverges |-> formatted.diverges,
         element_metalines |-> element_metalines,
         separated |-> separated]

\* The elements without their link ids: a level 1 and a level 2 title, a
\* paragraph, a link with and without text, an empty and a one-line
\* preformatted block, a blockquote and a list item, of text "ab cd", and a
\* link of text "abcd  e", with two spaces in a row.
SomeText == <<"a", "b", " ", "c", "d">>
SpacedText == <<"a", "b", "c", "d", " ", " ", "e">>
LayoutBlocks ==
    { Title(1, SomeText), Title(2, SomeText), Paragraph(SomeText),
      Link(<<"u">>, SomeText), Link(<<"u", "v">>, <<>>),
      Link(<<"u">>, SpacedText),
      Preformatted(<<>>), Preformatted(<<SomeText>>),
      Blockquote(SomeText), ListItem(SomeText) }

\* The link ids of the elements: the k-th Link of the document gets the id
\* start_link_id + k - 1.
RECURSIVE AssignIdents(_, _)
AssignIdents(blocks, start_link_id) ==
    IF blocks = <<>> THEN <<>>
    ELSE IF blocks[1].kind = "Link"
    THEN <<[kind |-> "Link", url |-> blocks[1].url, text |-> blocks[1].text,
            ident |-> start_link_id]>>
         \o AssignIdents(Drop(blocks, 1), start_link_id + 1)
    ELSE <<blocks[1]>> \o AssignIdents(Drop(blocks, 1), start_link_id)

\* The documents laid out, and the rendering options.
Documents == UNION {[1..n -> LayoutBlocks] : n \in 0..MaxBlocks}
Options ==
    [width : {NarrowWidth, NormalWidth}, mode : RENDER_MODES,
     bullet : {<<"*", " ">>}]

\* Links.from_metalines(metalines): the url of every link id.
Links_from_metalines(metalines) ==
    LET linked == {k \in 1..Len(metalines) : metalines[k].lextra # <<>>}
    IN  {<<metalines[k].lextra[1].link_id, metalines[k].lextra[1].url>> :
            k \in linked}

\* generate_metalines(elements, options) is called.
LayoutInit ==
    /\ \E blocks \in Documents : gm_elements = AssignIdents(blocks, 1)
    /\ gm_options \in Options
    /\ gm_index = 1
    /\ gm_metalines = <<>>
    /\ gm_has_margins = FALSE
    /\ gm_thin_type = 0
    /\ gm_last = [element_metalines |-> <<>>, separated |-> FALSE,
                  metalines0 |-> <<>>, has_margins0 |-> FALSE,
                  thin_type0 |-> 0, diverges |-> FALSE]

\* One iteration of the for loop.
GenElement ==
    /\ gm_index <= Len(gm_elements)
    /\ ~gm_last.diverges
    /\ \E r \in {GenBody([metalines |-> gm_metalines,
                          has_margins |-> gm_has_margins,
                          thin_type |-> gm_thin_type],
                         gm_elements[gm_index], gm_index - 1, gm_options)} :
           /\ gm_metalines' = r.metalines
           /\ gm_has_margins' = r.has_margins
           /\ gm_thin_type' = r.thin_type
           /\ gm_last' = [element_metalines |-> r.element_metalines,
                          separated |-> r.separated,
                          metalines0 |-> gm_metalines,
                          has_margins0 |-> gm_has_margins,
                          thin_type0 |-> gm_thin_type,
                          diverges |-> r.diverges]
    /\ gm_index' = gm_index + 1
    /\ UNCHANGED <<gm_elements, gm_options>>
    /\ UNCHANGED <<pad_vars, parse_vars, wrap_vars,
                   browser_vars, external_vars>>

\* The loop is over: generate_metalines returns metalines.
GenDone == gm_index = Len(gm_elements) + 1 /\ ~gm_last.diverges

InitLayout == PadIdle /\ ParseIdle /\ WrapIdle /\ LayoutInit /\ Idle

NextLayout == GenElement

SpecLayout == InitLayout /\ [][NextLayout]_vars

(***************************************************************************)
(* Properties of generate_metalines.                                       *)
(***************************************************************************)
Fancy == gm_options.mode = "fancy"
Dumb == gm_options.mode = "dumb"
IsThick(e) == e.kind \in {"Title", "Paragraph", "Preformatted", "Blockquote"}
IsThin(e) == e.kind \in {"Link", "ListItem"}
\* The element of the last iteration and its metalines.
LastElement == gm_elements[gm_index - 1]
LastMetalines == gm_last.element_metalines
NoSeparatorIn(ms) == \A k \in 1..Len(ms) : ms[k].ltype # NONE

\* C11: in fancy mode the first metaline is never a separator, whatever the
\* kind of the first element.
C11_NoLeadingSeparator ==
    (Fancy /\ gm_metalines # <<>>) => gm_metalines[1] # separator

\* The link ids the metalines carry, in order.
RECURSIVE LinkIds(_)
LinkIds(ms) ==
    IF ms = <<>> THEN <<>>
    ELSE (IF ms[1].lextra # <<>> THEN <<ms[1].lextra[1].link_id>> ELSE <<>>)
         \o LinkIds(Drop(ms, 1))
NumLinks == Cardinality({i \in 1..Len(gm_elements) :
                            gm_elements[i].kind = "Link"})

C15_ExtraOnFirstLinkRowOnly ==
    (gm_index > 1 /\ ~gm_last.diverges)
    => (/\ LastElement.kind = "Link"
           => (/\ LastMetalines # <<>>
               /\ LastMetalines[1].lextra =
                      <<[url |-> LastElement.url,
                         link_id |-> LastElement.ident]>>
               /\ \A k \in 2..Len(LastMetalines) :
                      LastMetalines[k].lextra = <<>>)
        /\ LastElement.kind # "Link"
           => \A k \in 1..Len(LastMetalines) : LastMetalines[k].lextra = <<>>
        /\ \A k \in 1..Len(gm_metalines) :
              gm_metalines[k].ltype = NONE => gm_metalines[k].lextra = <<>>
        /\ gm_metalines =
              gm_last.metalines0
              \o (IF gm_last.separated THEN <<separator>> ELSE <<>>)
              \o LastMetalines)

\* C15 witness: a link was wrapped into several rows after a separator.
C15_Witness ==
    /\ gm_index > 1
    /\ LastElement.kind = "Link"
    /\ Len(LastMetalines) >= 2
    /\ gm_last.separated

\* What an iteration appends to metalines when it separates the element
\* from the preceding one by exactly one separator: the separator, then the
\* metalines of the element, none of them a separator; and the metalines so
\* far end with the last metaline of the preceding element, if it has any.
AppendsOneSeparator ==
    /\ gm_metalines' =
           gm_metalines \o <<separator>> \o gm_last'.element_metalines
    /\ NoSeparatorIn(gm_last'.element_metalines)
    /\ LastMetalines # <<>>
       => gm_metalines[Len(gm_metalines)] = LastMetalines[Len(LastMetalines)]
AppendsNoSeparator ==
    /\ gm_metalines' = gm_metalines \o gm_last'.element_metalines
    /\ NoSeparatorIn(gm_last'.element_metalines)
    /\ LastMetalines # <<>>
       => gm_metalines[Len(gm_metalines)] = LastMetalines[Len(LastMetalines)]

\* C16: in fancy mode, a thick element that is not the first one, and a thin
\* element that follows a thick one, are separated from the preceding
\* element by exactly one separator.
C16_Step ==
    (/\ Fancy
     /\ gm_index' = gm_index + 1
     /\ gm_index > 1
     /\ \/ IsThick(gm_elements[gm_index])
        \/ IsThin(gm_elements[gm_index]) /\ IsThick(gm_elements[gm_index - 1]))
    => AppendsOneSeparator

C16_OneSeparatorAroundThick == [][C16_Step]_vars

\* C16 witness: a thick element with metalines was separated from a
\* preceding element with metalines.
C16_Witness ==
    /\ Fancy
    /\ gm_index > 2
    /\ IsThick(LastElement)
    /\ LastMetalines # <<>>
    /\ gm_last.separated
    /\ gm_last.metalines0 # <<>>
    /\ gm_last.metalines0[Len(gm_last.metalines0)] # separator

\* C17: in fancy mode, of two consecutive thin elements the second is not
\* separated from the first if both are links or both list items, and is
\* separated by exactly one separator otherwise.
C17_Step ==
    (/\ Fancy
     /\ gm_index' = gm_index + 1
     /\ gm_index > 1
     /\ IsThin(gm_elements[gm_index])
     /\ IsThin(gm_elements[gm_index - 1]))
    => IF gm_elements[gm_index].kind = gm_elements[gm_index - 1].kind
       THEN AppendsNoSeparator
       ELSE AppendsOneSeparator

C17_SeparatorBetweenThin == [][C17_Step]_vars

\* C17 witness: a link followed a list item that followed a list item.
C17_Witness ==
    /\ Fancy
    /\ gm_index > 3
    /\ gm_elements[gm_index - 3].kind = "ListItem"
    /\ gm_elements[gm_index - 2].kind = "ListItem"
    /\ LastElement.kind = "Link"
    /\ gm_last.separated

\* C18: in dumb mode no metaline is a separator and every element gives at
\* least one metaline: an element formatted into no row, as a Preformatted
\* without lines, gives one PARAGRAPH metaline of empty text.
C18_DumbMode ==
    Dumb
    => (/\ NoSeparatorIn(gm_metalines)
        /\ (gm_index > 1 /\ ~gm_last.diverges)
           => (/\ LastMetalines # <<>>
               /\ gm_metalines = gm_last.metalines0 \o LastMetalines
               /\ (LastElement.kind = "Preformatted"
                   /\ LastElement.lines = <<>>)
                  => LastMetalines = <<Metaline(PARAGRAPH, <<>>, <<>>)>>))

\* C18 witness: in dumb mode a Preformatted without lines followed an
\* element that is separated from it in fancy mode.
C18_Witness ==
    /\ Dumb
    /\ gm_index > 2
    /\ LastElement.kind = "Preformatted"
    /\ LastElement.lines = <<>>
    /\ gm_last.metalines0 # <<>>

\* C20: every metaline of a level 1 title has type TITLE_1 and a text of
\* width characters: the wrapped line, of length L <= width, after
\* floor((width - L) / 2) spaces and before the other ceil((width - L) / 2).
C20_Level1TitleCentered ==
    (/\ gm_index > 1
     /\ ~gm_last.diverges
     /\ LastElement.kind = "Title"
     /\ LastElement.level = 1)
    => LET width == gm_options.width
           wrapped == wrap_words(LastElement.text, width, 0).lines
       IN  /\ Len(LastMetalines) = Len(wrapped)
           /\ \A k \in 1..Len(wrapped) :
                 LET L == Len(wrapped[k])
                     before == (width - L) \div 2
                     after == (width - L) - before
                 IN  /\ L <= width
                     /\ after - before \in {0, 1}
                     /\ LastMetalines[k].ltype = TITLE_1
                     /\ Len(LastMetalines[k].line) = width
                     /\ LastMetalines[k].line =
                            Spaces(before) \o wrapped[k] \o Spaces(after)

\* C20 witness: a level 1 title had a line with an odd number of spaces to
\* share.
C20_Witness ==
    /\ gm_index > 1
    /\ LastElement.kind = "Title"
    /\ LastElement.level = 1
    /\ \E k \in 1..Len(LastMetalines) :
          /\ LastMetalines[k].line[1] = " "
          /\ (gm_options.width
              - Len(wrap_words(LastElement.text, gm_options.width, 0).lines[k]))
             % 2 = 1

\* The row k of an element whose first row starts with head in place of the
\* indent of the line wrap_words returned.
HeadedRow(head, wrapped, k) ==
    IF k = 1 THEN head \o Drop(wrapped[1], Len(head)) ELSE wrapped[k]

C25_NoDoubleOrTrailingSeparator ==
    (GenDone /\ Fancy /\ gm_metalines # <<>>)
    => (/\ gm_metalines[Len(gm_metalines)] # separator
        /\ \A k \in 1..(Len(gm_metalines) - 1) :
              ~(gm_metalines[k] = separator
                /\ gm_metalines[k + 1] = separator))

(***************************************************************************)
(* bebop/browser.py: opening urls, following links, reloading, going back  *)
(***************************************************************************)
MaxHistory == 2
MaxInputs == 1
MaxLinkId == 2

\* The urls opened: two Gemini urls and one of a scheme that is not
\* supported.
Urls == {"gemini://a", "gemini://b", "mailto:x"}
\* parse_url(url).scheme
scheme(url) == IF url = "mailto:x" THEN "mailto" ELSE "gemini"
\* join_url(base_url, url), of an absolute url
join_url(base_url, url) == url
\* sanitize_url(url), of a url that needs no change
sanitize_url(url) == url
\* set_parameter(url, user_input): the url of the same resource, queried
set_parameter(url, user_input) == url

\* The Links of a page: the url of each link id, from 1.
LinkTables == {<<>>, <<"gemini://a">>, <<"gemini://b", "mailto:x">>}
\* link_id in links
links_contains(links, link_id) == link_id \in DOMAIN links

\* History.push(url), History.has_links() and History.pop()
history_push(history, url) == Append(history, url)
history_has_links(history) == history # <<>>
history_pop(history) ==
    [url |-> history[Len(history)],
     history |-> SubSeq(history, 1, Len(history) - 1)]

\* Browser.set_status(text) and Browser.set_status_error(text)
set_status(t) == [error |-> FALSE, text |-> t]
set_status_error(t) == [error |-> TRUE, text |-> t]

\* What the server answers to a request: the connection fails, no data
\* comes, the response cannot be parsed, or the response has code 20, 3x
\* with or without meta, 4x or 5x, 1x, or another code.
Answers ==
    {"connection failed", "no data", "bad response", "20", "30", "30 no meta",
     "40", "10", "other"}
\* What the user types when asked for an input: nothing, or a text.
UserInputs == {"", "q"}

\* An open_gemini_url(url, redirects, history) call.
GeminiCall(url, redirects, history) ==
    [url |-> url, redirects |-> redirects, history |-> history]

\* Browser.open_url(url, base_url, redirects, assume_absolute): the status
\* it sets and the open_gemini_url call it makes, if any. base_url is ""
\* for None. The web and file schemes are not among the urls opened.
open_url_one_more_redirect(url, base_url, redirects, assume_absolute, current_url, status) ==
    IF redirects > 6
    THEN [status |-> set_status_error("Too many redirections"),
          call |-> <<>>]
    ELSE LET join == ~(assume_absolute \/ current_url = "") IN
         IF scheme(url) = "gemini"
         THEN [status |-> status,
               call |-> <<GeminiCall(
                   sanitize_url(
                       IF join \/ base_url # ""
                       THEN join_url(IF base_url # "" THEN base_url
                                     ELSE current_url, url)
                       ELSE url),
                   redirects, TRUE)>>]
         ELSE [status |-> set_status_error("Protocol not supported"),
               call |-> <<>>]

open_url(url, base_url, redirects, assume_absolute, current_url, status) ==
    IF redirects > 5
    THEN [status |-> set_status_error("Too many redirections"),
          call |-> <<>>]
    ELSE LET join == ~(assume_absolute \/ current_url = "") IN
         IF scheme(url) = "gemini"
         THEN [status |-> status,
               call |-> <<GeminiCall(
                   sanitize_url(
                       IF join \/ base_url # ""
                       THEN join_url(IF base_url # "" THEN base_url
                                     ELSE current_url, url)
                       ELSE url),
                   redirects, TRUE)>>]
         ELSE [status |-> set_status_error("Protocol not supported"),
               call |-> <<>>]

\* Browser.open_link(links, link_id)
open_link_falls_back_to_first(links, link_id, current_url, status) ==
    IF ~links_contains(links, link_id) /\ links = <<>>
    THEN [status |-> set_status_error("Unknown link ID"), call |-> <<>>]
    ELSE open_url(IF links_contains(links, link_id) THEN links[link_id]
                  ELSE links[1],
                  "", 0, FALSE, current_url, status)

open_link(links, link_id, current_url, status) ==
    IF ~links_contains(links, link_id)
    THEN [status |-> set_status_error("Unknown link ID"), call |-> <<>>]
    ELSE open_url(links[link_id], "", 0, FALSE, current_url, status)

\* Browser.open_gemini_url(url, redirects, history) when the server gives
\* the answer (with meta for a redirect, links for the content of a page and
\* user_input for an input request), from the browser
\* b = [current_url, history, page, status]: the browser it leaves and the
\* open_gemini_url call made next, if any.
open_gemini_url(c, answer, meta, links, user_input, b) ==
    LET Leave(status) == [b EXCEPT !.status = status] @@ [call |-> <<>>]
    IN
    IF answer = "connection failed"
    THEN Leave(set_status_error("Connection failed"))
    ELSE IF answer = "no data"
    THEN Leave(set_status_error("Server did not respond in time"))
    ELSE IF answer = "bad response"
    THEN Leave(set_status_error("Server response parsing failed"))
    ELSE IF answer = "20"
    THEN [current_url |-> c.url,
          history |-> IF b.current_url # "" /\ c.history
                      THEN history_push(b.history, b.current_url)
                      ELSE b.history,
          page |-> <<[url |-> c.url, links |-> links]>>,
          status |-> set_status(c.url),
          call |-> <<>>]
    ELSE IF answer = "30"
    THEN LET Follow(r) == [b EXCEPT !.status = r.status] @@ [call |-> r.call]
         IN Follow(open_url(meta, c.url, c.redirects + 1, FALSE,
                            b.current_url, set_status("Loading")))
    ELSE IF answer = "40"
    THEN Leave(set_status_error("Server error"))
    ELSE IF answer = "10"
    THEN IF user_input # ""
         THEN [b EXCEPT !.status = set_status("Input needed")]
              @@ [call |-> <<GeminiCall(set_parameter(c.url, user_input),
                                        0, TRUE)>>]
         ELSE Leave(set_status("Input needed"))
    ELSE Leave(set_status_error("Unhandled response code"))

\* What is recorded when the user asks for an operation.
BeginOp(name, arg) ==
    [name |-> name, arg |-> arg, requests |-> 0, inputs |-> 0,
     only_redirects |-> TRUE,
     current_url0 |-> br_current_url, history0 |-> br_history,
     page0 |-> br_page]

\* Browser.__init__
BrowserInit ==
    /\ br_current_url = ""
    /\ br_history = <<>>
    /\ br_page = <<>>
    /\ br_status = set_status("")
    /\ br_call = <<>>
    /\ br_op = [name |-> "init", arg |-> 0, requests |-> 0, inputs |-> 0,
                only_redirects |-> TRUE,
                current_url0 |-> "", history0 |-> <<>>, page0 |-> <<>>]

\* The command "open url": Browser.process_command -> open_url(url,
\* assume_absolute=True)
OpenCommand ==
    /\ br_call = <<>>
    /\ Len(br_history) < MaxHistory
    /\ \E url \in Urls :
           \E r \in {open_url(url, "", 0, TRUE, br_current_url, br_status)} :
               /\ br_status' = r.status
               /\ br_call' = r.call
               /\ br_op' = BeginOp("open_url", 0)
    /\ UNCHANGED <<br_current_url, br_history, br_page>>
    /\ UNCHANGED <<pad_vars, parse_vars, wrap_vars, layout_vars,
                   external_vars>>

\* A digit is typed: Browser.handle_digit_input -> open_link(links, link_id)
OpenLink ==
    /\ br_call = <<>>
    /\ Len(br_history) < MaxHistory
    /\ br_page # <<>>
    /\ \E link_id \in 0..(MaxLinkId + 1) :
           \E r \in {open_link(br_page[1].links, link_id, br_current_url,
                               br_status)} :
               /\ br_status' = r.status
               /\ br_call' = r.call
               /\ br_op' = BeginOp("open_link", link_id)
    /\ UNCHANGED <<br_current_url, br_history, br_page>>
    /\ UNCHANGED <<pad_vars, parse_vars, wrap_vars, layout_vars,
                   external_vars>>

\* Browser.reload_page
ReloadPage ==
    /\ br_call = <<>>
    /\ Len(br_history) < MaxHistory
    /\ br_call' = IF br_current_url # ""
                  THEN <<GeminiCall(br_current_url, 0, FALSE)>>
                  ELSE <<>>
    /\ br_op' = BeginOp("reload_page", 0)
    /\ UNCHANGED <<br_current_url, br_history, br_page, br_status>>
    /\ UNCHANGED <<pad_vars, parse_vars, wrap_vars, layout_vars,
                   external_vars>>

\* Browser.go_back
GoBack ==
    /\ br_call = <<>>
    /\ IF history_has_links(br_history)
       THEN /\ br_history' = history_pop(br_history).history
            /\ br_call' = <<GeminiCall(history_pop(br_history).url, 0,
                                       FALSE)>>
       ELSE UNCHANGED <<br_history, br_call>>
    /\ br_op' = BeginOp("go_back", 0)
    /\ UNCHANGED <<br_current_url, br_page, br_status>>
    /\ UNCHANGED <<pad_vars, parse_vars, wrap_vars, layout_vars,
                   external_vars>>

\* The open_gemini_url call is run: a request is sent and answered.
OpenGeminiUrl ==
    /\ br_call # <<>>
    /\ \E answer \in Answers, meta \in Urls, links \in LinkTables,
          user_input \in UserInputs :
           /\ answer # "30" => meta = "gemini://a"
           /\ answer # "20" => links = <<>>
           /\ answer # "10" => user_input = ""
           /\ user_input # "" => br_op.inputs < MaxInputs
           /\ \E r \in {open_gemini_url(
                           br_call[1], answer, meta, links, user_input,
                           [current_url |-> br_current_url,
                            history |-> br_history, page |-> br_page,
                            status |-> br_status])} :
                  /\ br_current_url' = r.current_url
                  /\ br_history' = r.history
                  /\ br_page' = r.page
                  /\ br_status' = r.status
                  /\ br_call' = r.call
           /\ br_op' = [br_op EXCEPT
                  !.requests = @ + 1,
                  !.inputs = IF user_input # "" THEN @ + 1 ELSE @,
                  !.only_redirects =
                      @ /\ answer = "30" /\ scheme(meta) = "gemini"]
    /\ UNCHANGED <<pad_vars, parse_vars, wrap_vars, layout_vars,
                   external_vars>>

InitBrowser ==
    PadIdle /\ ParseIdle /\ WrapIdle /\ LayoutIdle /\ BrowserInit
    /\ ExternalIdle

NextBrowser ==
    OpenCommand \/ OpenLink \/ ReloadPage \/ GoBack \/ OpenGeminiUrl

SpecBrowser == InitBrowser /\ [][NextBrowser]_vars

(***************************************************************************)
(* Properties of the navigation.                                           *)
(***************************************************************************)
\* C21: open_link with a link id that the Links of the page do not hold sets
\* an error status and opens no url: no request is sent, and the current
\* url, the history and the page shown are what they were.
C21_UnknownLinkOpensNothing ==
    (/\ br_op # <<>>
     /\ br_op.name = "open_link"
     /\ ~links_contains(br_op.page0[1].links, br_op.arg))
    => (/\ br_status = set_status_error("Unknown link ID")
        /\ br_call = <<>>
        /\ br_op.requests = 0
        /\ br_current_url = br_op.current_url0
        /\ br_history = br_op.history0
        /\ br_page = br_op.page0)

\* C21 witness: on a page of two links, after one url was pushed on the
\* history, the link id 3 was asked for.
C21_Witness ==
    /\ br_op # <<>>
    /\ br_op.name = "open_link"
    /\ br_op.arg = 3
    /\ Len(br_op.page0[1].links) = 2
    /\ br_history # <<>>
    /\ br_status.error

\* C27: while the server answers every request of a user operation with a
\* redirect to a Gemini url, the redirects of the call to run are the
\* requests sent so far, at most 5; the operation sends at most 6 requests
\* and then ends, with the error status "Too many redirections".
C27_RedirectChainIsBounded ==
    (br_op # <<>> /\ br_op.only_redirects)
    => (/\ br_op.requests <= 6
        /\ br_call # <<>>
           => (br_call[1].redirects = br_op.requests
               /\ br_call[1].redirects <= 5)
        /\ (br_call = <<>> /\ br_op.requests > 0)
           => (/\ br_op.requests = 6
               /\ br_status = set_status_error("Too many redirections")))

\* C27 witness: an open command was redirected six times and ended.
C27_Witness ==
    /\ br_op # <<>>
    /\ br_op.name = "open_url"
    /\ br_op.only_redirects
    /\ br_op.requests = 6
    /\ br_call = <<>>

\* C28: reload_page and go_back push nothing on the history, whatever the
\* server answers: during a reload the history is what it was, during a
\* go_back it is what it was without the url popped.
C28_ReloadAndBackNeverPush ==
    /\ (br_op # <<>> /\ br_op.name = "reload_page")
       => br_history = br_op.history0
    /\ (br_op # <<>> /\ br_op.name = "go_back")
       => br_history = IF history_has_links(br_op.history0)
                       THEN history_pop(br_op.history0).history
                       ELSE br_op.history0

(***************************************************************************)
(* bebop/external.py: open_external_program                                *)
(***************************************************************************)
\* The commands called: the source editor of the configuration with a file
\* name, as Browser.edit_page builds it.
Commands == {<<"vi", "f">>, <<"nano", "f">>, <<"missing", "f">>}
\* The states of the terminal: cbreak and echo modes, the visibility of the
\* cursor, whether the mouse events are reported.
Terminals ==
    [cbreak : BOOLEAN, echo : BOOLEAN, cursor : {0, 1, 2}, mouse : BOOLEAN]
\* What subprocess.run does: the command runs and exits with a status, or
\* launching it raises OSError.
Outcomes == {"exit 0", "exit 1", "OSError"}

\* open_external_program(command) is called.
ExternalInit ==
    /\ ext_command \in Commands
    /\ ext_terminal \in Terminals
    /\ ext_pc = "nocbreak"
    /\ ext_calls = <<>>
    /\ ext_result = <<>>

\* curses.nocbreak()
Nocbreak ==
    /\ ext_pc = "nocbreak"
    /\ ext_calls' = Append(ext_calls, "nocbreak")
    /\ ext_terminal' = [ext_terminal EXCEPT !.cbreak = FALSE]
    /\ ext_pc' = "echo"
    /\ UNCHANGED <<ext_command, ext_result>>
    /\ UNCHANGED <<pad_vars, parse_vars, wrap_vars, layout_vars,
                   browser_vars>>
\* curses.echo()
Echo ==
    /\ ext_pc = "echo"
    /\ ext_calls' = Append(ext_calls, "echo")
    /\ ext_terminal' = [ext_terminal EXCEPT !.echo = TRUE]
    /\ ext_pc' = "curs_set(1)"
    /\ UNCHANGED <<ext_command, ext_result>>
    /\ UNCHANGED <<pad_vars, parse_vars, wrap_vars, layout_vars,
                   browser_vars>>
\* curses.curs_set(1)
ShowCursor ==
    /\ ext_pc = "curs_set(1)"
    /\ ext_calls' = Append(ext_calls, "curs_set(1)")
    /\ ext_terminal' = [ext_terminal EXCEPT !.cursor = 1]
    /\ ext_pc' = "result"
    /\ UNCHANGED <<ext_command, ext_result>>
    /\ UNCHANGED <<pad_vars, parse_vars, wrap_vars, layout_vars,
                   browser_vars>>

\* result = True
ResultTrue ==
    /\ ext_pc = "result"
    /\ ext_result' = <<TRUE>>
    /\ ext_pc' = "run"
    /\ UNCHANGED <<ext_command, ext_terminal, ext_calls>>
    /\ UNCHANGED <<pad_vars, parse_vars, wrap_vars, layout_vars,
                   browser_vars>>

\* try: subprocess.run(command); except OSError: logging.error(..), result =
\* False
Run_returns_on_error ==
    /\ ext_pc = "run"
    /\ \E outcome \in Outcomes :
           IF outcome = "OSError"
           THEN /\ ext_calls' = ext_calls
                       \o <<"subprocess.run", "OSError", "logging.error">>
                /\ ext_result' = <<FALSE>>
                /\ ext_pc' = "return"
           ELSE /\ ext_calls' = Append(ext_calls, "subprocess.run")
                /\ ext_result' = ext_result
                /\ ext_pc' = "mousemask"
    /\ UNCHANGED <<ext_command, ext_terminal>>
    /\ UNCHANGED <<pad_vars, parse_vars, wrap_vars, layout_vars,
                   browser_vars>>

Run ==
    /\ ext_pc = "run"
    /\ \E outcome \in Outcomes :
           IF outcome = "OSError"
           THEN /\ ext_calls' = ext_calls
                       \o <<"subprocess.run", "OSError", "logging.error">>
                /\ ext_result' = <<FALSE>>
           ELSE /\ ext_calls' = Append(ext_calls, "subprocess.run")
                /\ ext_result' = ext_result
    /\ ext_pc' = "mousemask"
    /\ UNCHANGED <<ext_command, ext_terminal>>
    /\ UNCHANGED <<pad_vars, parse_vars, wrap_vars, layout_vars,
                   browser_vars>>

\* curses.mousemask(curses.ALL_MOUSE_EVENTS)
Mousemask ==
    /\ ext_pc = "mousemask"
    /\ ext_calls' = Append(ext_calls, "mousemask")
    /\ ext_terminal' = [ext_terminal EXCEPT !.mouse = TRUE]
    /\ ext_pc' = "curs_set(0)"
    /\ UNCHANGED <<ext_command, ext_result>>
    /\ UNCHANGED <<pad_vars, parse_vars, wrap_vars, layout_vars,
                   browser_vars>>
\* curses.curs_set(0)
HideCursor ==
    /\ ext_pc = "curs_set(0)"
    /\ ext_calls' = Append(ext_calls, "curs_set(0)")
    /\ ext_terminal' = [ext_terminal EXCEPT !.cursor = 0]
    /\ ext_pc' = "noecho"
    /\ UNCHANGED <<ext_command, ext_result>>
    /\ UNCHANGED <<pad_vars, parse_vars, wrap_vars, layout_vars,
                   browser_vars>>
\* curses.noecho()
Noecho ==
    /\ ext_pc = "noecho"
    /\ ext_calls' = Append(ext_calls, "noecho")
    /\ ext_terminal' = [ext_terminal EXCEPT !.echo = FALSE]
    /\ ext_pc' = "cbreak"
    /\ UNCHANGED <<ext_command, ext_result>>
    /\ UNCHANGED <<pad_vars, parse_vars, wrap_vars, layout_vars,
                   browser_vars>>
\* curses.cbreak()
Cbreak ==
    /\ ext_pc = "cbreak"
    /\ ext_calls' = Append(ext_calls, "cbreak")
    /\ ext_terminal' = [ext_terminal EXCEPT !.cbreak = TRUE]
    /\ ext_pc' = "return"
    /\ UNCHANGED <<ext_command, ext_result>>
    /\ UNCHANGED <<pad_vars, parse_vars, wrap_vars, layout_vars,
                   browser_vars>>

\* return result
ReturnResult ==
    /\ ext_pc = "return"
    /\ ext_pc' = "returned"
    /\ UNCHANGED <<ext_command, ext_terminal, ext_calls, ext_result>>
    /\ UNCHANGED <<pad_vars, parse_vars, wrap_vars, layout_vars,
                   browser_vars>>

InitExternal ==
    PadIdle /\ ParseIdle /\ WrapIdle /\ LayoutIdle /\ BrowserIdle
    /\ ExternalInit

NextExternal ==
    \/ Nocbreak \/ Echo \/ ShowCursor \/ ResultTrue \/ Run
    \/ Mousemask \/ HideCursor \/ Noecho \/ Cbreak \/ ReturnResult

SpecExternal == InitExternal /\ [][NextExternal]_vars

\* The calls made from the k-th on.
CallsFrom(k) == SubSeq(ext_calls, k, Len(ext_calls))
\* Where subprocess.run was called.
RunIndex == CHOOSE k \in 1..Len(ext_calls) : ext_calls[k] = "subprocess.run"
Raised == \E k \in 1..Len(ext_calls) : ext_calls[k] = "OSError"

\* C29: when open_external_program returns, the last calls it made, after
\* the subprocess attempt, are mousemask, curs_set(0), noecho and cbreak,
\* whether the command ran or launching it raised OSError; it returns True
\* if the command ran and False if OSError was raised.
C29_TerminalRestored ==
    ext_pc = "returned"
    => (/\ \E k \in 1..Len(ext_calls) : ext_calls[k] = "subprocess.run"
        /\ CallsFrom(RunIndex + 1) =
               (IF Raised THEN <<"OSError", "logging.error">> ELSE <<>>)
               \o <<"mousemask", "curs_set(0)", "noecho", "cbreak">>
        /\ ext_terminal =
               [cbreak |-> TRUE, echo |-> FALSE, cursor |-> 0, mouse |-> TRUE]
        /\ ext_result = <<~Raised>>)

\* C29 witness: the function returned after launching the command raised
\* OSError, on a terminal that did not report the mouse.
C29_Witness ==
    /\ ext_pc = "returned"
    /\ Raised
    /\ ext_result = <<FALSE>>
    /\ ext_terminal.mouse

====
